---- MODULE Spec2Model ----
(***************************************************************************)
(* State-machine model of the user-management service                      *)
(* (services/user-management/apps/users: models.py and views.py).          *)
(*                                                                         *)
(* The database tables are the variables users, sessions, history, tokens, *)
(* parent_role, permissions, user_roles and tenants.  Every request        *)
(* handler runs in autocommit mode (settings.py sets no ATOMIC_REQUESTS,   *)
(* the views open no transaction), so a handler is a sequence of separate  *)
(* database statements; req[p] holds the position and the in-memory model  *)
(* instances of the request served by worker p.  Time is counted in        *)
(* minutes.                                                                *)
(***************************************************************************)
EXTENDS Integers, Sequences, FiniteSets, TLC

VARIABLES
    now,          \* timezone.now(), in minutes
    users,        \* User rows, by primary key
    sessions,     \* UserSession rows, in insertion order
    history,      \* LoginHistory rows, in insertion order
    tokens,       \* PasswordResetToken rows, in insertion order
    req,          \* per worker: the request in progress and its locals
    parent_role,  \* Role.parent_role, by role
    permissions,  \* Role.permissions (direct), by role
    call,         \* the interpreter's state of one method call and its return value
    user_roles,   \* UserRole rows, in insertion order
    tenants       \* Tenant rows, by schema name

vars == <<now, users, sessions, history, tokens, req, parent_role, permissions, call,
          user_roles, tenants>>

(***************************************************************************)
(* Bounds of the model.                                                    *)
(***************************************************************************)
MaxTime == 90          \* the clock stops here
MaxAttempts == 6       \* SpecLogin, SpecLock: login attempts that reach the audit table
MaxPriorLogins == 1    \* SpecReset: successful logins of u1 before it starts
MaxTokens == 2         \* SpecReset: reset tokens issued
RecursionLimit == 4    \* SpecRoles: frames the interpreter allows before RecursionError
MaxSessions == 3       \* SpecSessions: logins, each creating one session
MaxSessionTime == 20160  \* SpecSessions: the clock stops here
MaxUserRoles == 3      \* SpecAssign: UserRole rows
MaxAccessAttempts == 3 \* SpecAccess, SpecLoginRow: login attempts
MaxLogoutLogins == 2   \* SpecLogout, SpecOwner: login attempts that reach the audit table
MaxLogoutTokens == 1   \* SpecLogout: reset tokens issued
MaxNewUsers == 4       \* SpecQuota: users created
QuotaUnderTest == 2    \* SpecQuota: the max_users of the tenant that takes users
MaxGrants == 2         \* SpecPerm: UserRole rows
MaxHistoryAdds == 12   \* SpecUserRow: add_session calls

(***************************************************************************)
(* Program constants.                                                      *)
(***************************************************************************)
LOCK_THRESHOLD == 5
LOCK_MINUTES == 30
RESET_TOKEN_MINUTES == 60
SESSION_MINUTES == 10080
DEFAULT_MAX_USERS == 10
API_KEY_BYTES == 32
API_KEY_MAX_LENGTH == 40
LAST_SESSIONS == 10

Users == {"u1", "u2"}
NoUser == "nobody"
Tenants == {"t1", "t2"}                 \* the schemas of django_tenants
NoTenant == ""
LoginTenants == {"t1"}                  \* the tenant SpecLogin and SpecReset call
Procs == {"w1", "w2"}
Emails == {"u1@x", "u2@x", "ghost@x"}
LoginEmails == {"u1@x", "ghost@x"}      \* the addresses SpecLogin logs in with
Passwords == {"pwA", "pwB"}
NoTime == -1           \* a NULL DateTimeField
TickSteps == {LOCK_MINUTES}

Roles == {"A", "B", "C"}
NoRole == "none"
Perms == {"p1", "p2"}
Null == "NULL"         \* a NULL foreign key
SubscriptionStatuses == {"active", "suspended", "cancelled", "expired"}
None == <<>>           \* Python's None where a string is expected

EmailOf(u) == IF u = "u1" THEN "u1@x" ELSE "u2@x"

\* apps.users is a TENANT_APP: every tenant's schema has its own users table,
\* and TenantMainMiddleware points the request's connection at one schema
TenantOf(u) == IF u = "u1" THEN "t1" ELSE "t2"

UserByEmailAnySchema(t, e) ==
    IF \E u \in Users : EmailOf(u) = e
    THEN CHOOSE u \in Users : EmailOf(u) = e
    ELSE NoUser
\* User.objects.get(email=email) on a connection set to tenant t's schema: the
\* row, or NoUser for DoesNotExist
UserByEmail(t, e) ==
    IF \E u \in Users : TenantOf(u) = t /\ EmailOf(u) = e
    THEN CHOOSE u \in Users : TenantOf(u) = t /\ EmailOf(u) = e
    ELSE NoUser

\* set_password stores a hash, check_password compares against it
make_password(raw) == <<"argon2", raw>>
check_password(raw, stored) == make_password(raw) = stored

IsAccountLockedInverted(user, t) == user.locked_until # NoTime /\ user.locked_until < t
\* User.is_account_locked
is_account_locked(user, t) == user.locked_until # NoTime /\ user.locked_until > t

\* authenticate(request, username=email, password=password)
authenticate(t, e, pw) ==
    LET u == UserByEmail(t, e) IN
    IF u # NoUser /\ check_password(pw, users[u].password) THEN u ELSE NoUser

\* A LoginHistory row as LoginHistory.objects.create writes it
HistoryRow(u, e, ok, reason) ==
    [user |-> u, email |-> e, success |-> ok, failure_reason |-> reason]

\* A worker between requests: op, status and token are the request it
\* answered last (the view, the HTTP status, the reset token it consumed)
Done(op, token, status) ==
    [pc |-> "idle", op |-> op, tenant |-> NoTenant, email |-> "", user |-> NoUser,
     role |-> NoRole,
     fla |-> 0, locked_until |-> NoTime, token |-> token, new_password |-> "",
     session_id |-> None, access |-> <<>>, refresh |-> <<>>, began |-> 0, pending |-> {},
     listed |-> {}, status |-> status]

Idle(status) == Done("login", 0, status)

InitUsers ==
    [u \in Users |->
        [password |-> make_password("pwA"), failed_login_attempts |-> 0,
         locked_until |-> NoTime, is_active |-> TRUE,
         must_change_password |-> TRUE, password_changed_at |-> NoTime]]

\* the Tenant rows at their defaults
InitTenants ==
    [t \in Tenants |->
        [subscription_status |-> "active", subscription_expires_at |-> NoTime,
         max_users |-> DEFAULT_MAX_USERS]]

InitCommon ==
    /\ now = 0
    /\ users = InitUsers
    /\ sessions = <<>>
    /\ history = <<>>
    /\ tokens = <<>>
    /\ req = [p \in Procs |-> Done("", 0, 0)]
    /\ parent_role = [r \in Roles |-> NoRole]
    /\ permissions = [r \in Roles |-> {}]
    /\ call = [pc |-> "none", role |-> NoRole, stack |-> <<>>, result |-> {}]
    /\ user_roles = <<>>
    /\ tenants = InitTenants

InFlight == {p \in Procs : req[p].pc # "idle"}

\* the passage of time
Tick ==
    /\ \E d \in TickSteps : now + d <= MaxTime /\ now' = now + d
    /\ UNCHANGED <<users, sessions, history, tokens, req, parent_role, permissions, call, user_roles,
                   tenants>>

(***************************************************************************)
(* AuthenticationView.post                                                 *)
(***************************************************************************)
LoginBranchInactiveFails(u, a, t) ==
    IF u # NoUser /\ is_account_locked(users[u], t) THEN "account_locked"
    ELSE IF a = NoUser \/ ~users[a].is_active THEN "invalid_credentials"
    ELSE "authenticated"
\* the conditions of lines 507, 524 and 545, in their order: u is the user the
\* email resolved to, a the user authenticate returned
login_branch(u, a, t) ==
    IF u # NoUser /\ is_account_locked(users[u], t) THEN "account_locked"
    ELSE IF a = NoUser THEN "invalid_credentials"
    ELSE IF ~users[a].is_active THEN "inactive_account"
    ELSE "authenticated"

\* lines 492-557, for a request routed to tenant t: resolve the user, the
\* lock check, authenticate, the is_active check
LoginResolve(p, t, e, pw) ==
    /\ req[p].pc = "idle"
    /\ LET u == UserByEmail(t, e)
           a == authenticate(t, e, pw)
           branch == login_branch(u, a, now)
       IN  IF branch = "account_locked"
           THEN /\ history' = Append(history, HistoryRow(u, e, FALSE, "account_locked"))
                /\ req' = [req EXCEPT ![p] = Idle(423)]
           ELSE IF branch = "invalid_credentials"
           THEN /\ req' = [req EXCEPT ![p] = [Idle(0) EXCEPT !.pc = "login_failed",
                                                              !.tenant = t, !.email = e]]
                /\ UNCHANGED history
           ELSE IF branch = "inactive_account"
           THEN /\ history' = Append(history, HistoryRow(a, e, FALSE, "inactive_account"))
                /\ req' = [req EXCEPT ![p] = Idle(403)]
           ELSE /\ req' = [req EXCEPT ![p] = [Idle(0) EXCEPT !.pc = "login_ok", !.tenant = t,
                                                              !.email = e, !.user = a]]
                /\ UNCHANGED history
    /\ UNCHANGED <<now, users, sessions, tokens, parent_role, permissions, call, user_roles, tenants>>

LoginFailReadAnySchema(p) ==
    /\ req[p].pc = "login_failed"
    /\ LET u == UserByEmailAnySchema(req[p].tenant, req[p].email) IN
       IF u # NoUser
       THEN req' = [req EXCEPT ![p].pc = "login_save", ![p].user = u,
                               ![p].fla = users[u].failed_login_attempts,
                               ![p].locked_until = users[u].locked_until]
       ELSE req' = [req EXCEPT ![p] = Idle(401)]
    /\ UNCHANGED <<now, users, sessions, history, tokens, parent_role, permissions, call, user_roles,
                   tenants>>
LoginFailReadNotFound(p) ==
    /\ req[p].pc = "login_failed"
    /\ LET u == UserByEmail(req[p].tenant, req[p].email) IN
       IF u # NoUser
       THEN req' = [req EXCEPT ![p].pc = "login_save", ![p].user = u,
                               ![p].fla = users[u].failed_login_attempts,
                               ![p].locked_until = users[u].locked_until]
       ELSE req' = [req EXCEPT ![p] = Idle(404)]
    /\ UNCHANGED <<now, users, sessions, history, tokens, parent_role, permissions, call, user_roles,
                   tenants>>
\* lines 524-527: the failed branch reads the target user again; without one,
\* lines 539-542 answer
LoginFailRead(p) ==
    /\ req[p].pc = "login_failed"
    /\ LET u == UserByEmail(req[p].tenant, req[p].email) IN
       IF u # NoUser
       THEN req' = [req EXCEPT ![p].pc = "login_save", ![p].user = u,
                               ![p].fla = users[u].failed_login_attempts,
                               ![p].locked_until = users[u].locked_until]
       ELSE req' = [req EXCEPT ![p] = Idle(401)]
    /\ UNCHANGED <<now, users, sessions, history, tokens, parent_role, permissions, call, user_roles,
                   tenants>>

IncrementFailedLoginLongLock(user, fla, locked_until, t) ==
    [user EXCEPT !.failed_login_attempts = fla + 1,
                 !.locked_until = IF fla + 1 >= LOCK_THRESHOLD
                                  THEN t + 2 * LOCK_MINUTES ELSE locked_until]
\* User.increment_failed_login on the instance read by the request (its
\* counter fla and its locked_until), saved with update_fields
increment_failed_login(user, fla, locked_until, t) ==
    [user EXCEPT !.failed_login_attempts = fla + 1,
                 !.locked_until = IF fla + 1 >= LOCK_THRESHOLD
                                  THEN t + LOCK_MINUTES ELSE locked_until]

\* lines 528-542: increment_failed_login saves the instance, then the audit row
LoginFailSave(p) ==
    /\ req[p].pc = "login_save"
    /\ LET u == req[p].user IN
       /\ users' = [users EXCEPT ![u] =
                       increment_failed_login(users[u], req[p].fla, req[p].locked_until, now)]
       /\ history' = Append(history, HistoryRow(u, req[p].email, FALSE, "invalid_credentials"))
    /\ req' = [req EXCEPT ![p] = Idle(401)]
    /\ UNCHANGED <<now, sessions, tokens, parent_role, permissions, call, user_roles, tenants>>

ResetFailedLoginKeepLock(user) == [user EXCEPT !.failed_login_attempts = 0]
\* User.reset_failed_login
reset_failed_login(user) ==
    [user EXCEPT !.failed_login_attempts = 0, !.locked_until = NoTime]

\* line 560
LoginOkReset(p) ==
    /\ req[p].pc = "login_ok"
    /\ users' = [users EXCEPT ![req[p].user] = reset_failed_login(users[req[p].user])]
    /\ req' = [req EXCEPT ![p].pc = "login_session"]
    /\ UNCHANGED <<now, sessions, history, tokens, parent_role, permissions, call, user_roles, tenants>>

\* the k-th UserSession row's primary key, a uuid4
SessionId(k) == <<"id", k>>
\* the access and refresh tokens of the k-th RefreshToken.for_user
AccessToken(k) == <<"access", k>>
RefreshToken(k) == <<"refresh", k>>

\* request.session.session_key: the value of the sessionid cookie the client
\* sent, None when it sent none
SessionCookies == {<<"cookie", 1>>}
ClientCookies == SessionCookies \cup {None}

\* line 567: request.session.session_key or str(refresh.access_token)
SessionKey(c, k) == IF c # None THEN c ELSE AccessToken(k)

\* the unique index on UserSession.session_key
KeyTaken(key) == \E i \in 1..Len(sessions) : sessions[i].session_key = key

\* the row UserSession.objects.create writes at time t: the k-th row, under key
NewSession(u, key, k, t) ==
    [id |-> SessionId(k), user |-> u, session_key |-> key,
     expires_at |-> t + SESSION_MINUTES, revoked_at |-> NoTime, is_active |-> TRUE]

\* lines 562-573 for a request whose session cookie is c: RefreshToken.for_user
\* issues the credentials and UserSession.objects.create inserts the session;
\* a key the table already holds raises IntegrityError, which nothing catches:
\* the request ends with a 500
CreateSession(p, c) ==
    /\ req[p].pc = "login_session"
    /\ LET k == Len(sessions) + 1
           key == SessionKey(c, k) IN
       IF KeyTaken(key)
       THEN /\ req' = [req EXCEPT ![p] = Idle(500)]
            /\ UNCHANGED sessions
       ELSE /\ sessions' = Append(sessions, NewSession(req[p].user, key, k, now))
            /\ req' = [req EXCEPT ![p].pc = "login_history",
                                   ![p].session_id = SessionId(k),
                                   ![p].access = AccessToken(k),
                                   ![p].refresh = RefreshToken(k)]
    /\ UNCHANGED <<now, users, history, tokens, parent_role, permissions, call, user_roles,
                   tenants>>

\* lines 562-573 for a client that sends no session cookie
LoginOkSession(p) == CreateSession(p, None)

LoginOkHistoryRewrites(p) ==
    /\ req[p].pc = "login_history"
    /\ history' = <<HistoryRow(req[p].user, req[p].email, TRUE, "")>>
    /\ req' = [req EXCEPT ![p] = [Idle(200) EXCEPT !.session_id = req[p].session_id,
                                                   !.access = req[p].access,
                                                   !.refresh = req[p].refresh]]
    /\ UNCHANGED <<now, users, sessions, tokens, parent_role, permissions, call, user_roles, tenants>>
\* lines 575-607
LoginOkHistory(p) ==
    /\ req[p].pc = "login_history"
    /\ history' = Append(history, HistoryRow(req[p].user, req[p].email, TRUE, ""))
    /\ req' = [req EXCEPT ![p] = [Idle(200) EXCEPT !.session_id = req[p].session_id,
                                                   !.access = req[p].access,
                                                   !.refresh = req[p].refresh]]
    /\ UNCHANGED <<now, users, sessions, tokens, parent_role, permissions, call, user_roles, tenants>>

\* the steps of a login request already accepted
LoginStep(p) ==
    \/ LoginFailRead(p)
    \/ LoginFailSave(p)
    \/ LoginOkReset(p)
    \/ LoginOkSession(p)
    \/ LoginOkHistory(p)

\* fewer than n login attempts have reached, or may still reach, the audit table
LoginBudget(n) == Len(history) + Cardinality(InFlight) < n

NextLogin ==
    \/ Tick
    \/ \E p \in Procs : LoginStep(p)
    \/ /\ LoginBudget(MaxAttempts)
       /\ \E p \in Procs, t \in LoginTenants, e \in LoginEmails, pw \in Passwords :
             LoginResolve(p, t, e, pw)

SpecLogin == InitCommon /\ [][NextLogin]_vars

UnlockCounterOnly(u) ==
    /\ users' = [users EXCEPT ![u].failed_login_attempts = 0]
    /\ UNCHANGED <<now, sessions, history, tokens, req, parent_role, permissions, call, user_roles,
                   tenants>>
\* UserViewSet.unlock: user.reset_failed_login() on the instance get_object read
Unlock(u) ==
    /\ users' = [users EXCEPT ![u] = reset_failed_login(users[u])]
    /\ UNCHANGED <<now, sessions, history, tokens, req, parent_role, permissions, call, user_roles,
                   tenants>>

(***************************************************************************)
(* PasswordResetView and UserViewSet.reset_password                        *)
(***************************************************************************)
\* the tokens a reset_password request may present: every row's, and 0, which
\* no row holds
TokenInputs == 0..MaxTokens

\* PasswordResetToken.objects.create(...) for user u: a fresh random token
NewToken(u) ==
    [user |-> u, token |-> Len(tokens) + 1, expires_at |-> now + RESET_TOKEN_MINUTES,
     used_at |-> NoTime, is_used |-> FALSE, is_revoked |-> FALSE]

\* PasswordResetView.request_reset
RequestReset(t, e) ==
    /\ LET u == UserByEmail(t, e) IN
       IF u # NoUser
       THEN tokens' = Append(tokens, NewToken(u))
       ELSE UNCHANGED tokens
    /\ UNCHANGED <<now, users, sessions, history, req, parent_role, permissions, call, user_roles,
                   tenants>>

\* User.generate_password_reset_token, called by UserViewSet.reset_password:
\* revokes the user's unused tokens and issues a new one
generate_password_reset_token(u) ==
    Append([i \in 1..Len(tokens) |->
               IF tokens[i].user = u /\ ~tokens[i].is_used
               THEN [tokens[i] EXCEPT !.is_revoked = TRUE]
               ELSE tokens[i]],
           NewToken(u))

\* UserViewSet.reset_password
AdminResetPassword(u) ==
    /\ tokens' = generate_password_reset_token(u)
    /\ UNCHANGED <<now, users, sessions, history, req, parent_role, permissions, call, user_roles,
                   tenants>>

TokenIsValidNoExpiry(tok, t) == ~(tok.is_used \/ tok.is_revoked)
\* PasswordResetToken.is_valid
token_is_valid(tok, t) ==
    IF tok.is_used \/ tok.is_revoked THEN FALSE
    ELSE IF tok.expires_at < t THEN FALSE
    ELSE TRUE

\* PasswordResetToken.objects.get(token=token, is_used=False, is_revoked=False)
\* finds a row
TokenFound(t) ==
    /\ t \in 1..Len(tokens)
    /\ ~tokens[t].is_used
    /\ ~tokens[t].is_revoked

\* lines 815-836: look the token up and validate it
ResetLookup(p, t, npw) ==
    /\ req[p].pc = "idle"
    /\ IF TokenFound(t) /\ token_is_valid(tokens[t], now)
       THEN req' = [req EXCEPT ![p] = [Done("reset", t, 0) EXCEPT
                                           !.pc = "reset_setpw", !.user = tokens[t].user,
                                           !.new_password = npw]]
       ELSE req' = [req EXCEPT ![p] = Done("reset", 0, 400)]
    /\ UNCHANGED <<now, users, sessions, history, tokens, parent_role, permissions, call, user_roles,
                   tenants>>

\* lines 838-843: set_password, password_changed_at, must_change_password, save
ResetSetPassword(p) ==
    /\ req[p].pc = "reset_setpw"
    /\ users' = [users EXCEPT ![req[p].user] =
                    [@ EXCEPT !.password = make_password(req[p].new_password),
                              !.password_changed_at = now,
                              !.must_change_password = FALSE]]
    /\ req' = [req EXCEPT ![p].pc = "reset_mark"]
    /\ UNCHANGED <<now, sessions, history, tokens, parent_role, permissions, call, user_roles, tenants>>

\* PasswordResetToken.mark_as_used
mark_as_used(tok, t) == [tok EXCEPT !.is_used = TRUE, !.used_at = t]

\* lines 845-846
ResetMarkUsed(p) ==
    /\ req[p].pc = "reset_mark"
    /\ tokens' = [tokens EXCEPT ![req[p].token] = mark_as_used(@, now)]
    /\ req' = [req EXCEPT ![p].pc = "reset_revoke"]
    /\ UNCHANGED <<now, users, sessions, history, parent_role, permissions, call, user_roles, tenants>>

RevokeSessionsKeepStamp(u) ==
    [i \in 1..Len(sessions) |->
        IF sessions[i].user = u /\ sessions[i].is_active
        THEN [sessions[i] EXCEPT !.is_active = FALSE]
        ELSE sessions[i]]
\* UserSession.objects.filter(user=u, is_active=True).update(is_active=False,
\* revoked_at=timezone.now())
RevokeSessionsOf(u) ==
    [i \in 1..Len(sessions) |->
        IF sessions[i].user = u /\ sessions[i].is_active
        THEN [sessions[i] EXCEPT !.is_active = FALSE, !.revoked_at = now]
        ELSE sessions[i]]

ResetRevokeNothing(p) ==
    /\ req[p].pc = "reset_revoke"
    /\ req' = [req EXCEPT ![p] = Done("reset", req[p].token, 200)]
    /\ UNCHANGED <<now, users, sessions, history, tokens, parent_role, permissions, call,
                   user_roles, tenants>>
\* lines 848-864
ResetRevokeSessions(p) ==
    /\ req[p].pc = "reset_revoke"
    /\ sessions' = RevokeSessionsOf(req[p].user)
    /\ req' = [req EXCEPT ![p] = Done("reset", req[p].token, 200)]
    /\ UNCHANGED <<now, users, history, tokens, parent_role, permissions, call, user_roles, tenants>>

\* the steps of a reset_password request that passed validation
ResetStep(p) ==
    \/ ResetSetPassword(p)
    \/ ResetMarkUsed(p)
    \/ ResetRevokeSessions(p)

ResetEmails == {"u1@x", "ghost@x"}      \* the addresses SpecReset asks tokens for
ResetUsers == {"u1"}                    \* the users an admin resets in SpecReset
NewPasswords == {"pwB"}                 \* the new passwords SpecReset presents

\* the tables after u1 logged in n times at minute 0 with the right password:
\* LoginResolve, LoginOkReset, LoginOkSession and LoginOkHistory, n times over
AfterLogins(n) ==
    /\ sessions = [i \in 1..n |-> NewSession("u1", AccessToken(i), i, 0)]
    /\ history = [i \in 1..n |-> HistoryRow("u1", "u1@x", TRUE, "")]

InitReset ==
    /\ now = 0
    /\ users = InitUsers
    /\ AfterLogins(MaxPriorLogins)
    /\ tokens = <<>>
    /\ req = [p \in Procs |-> Done("", 0, 0)]
    /\ parent_role = [r \in Roles |-> NoRole]
    /\ permissions = [r \in Roles |-> {}]
    /\ call = [pc |-> "none", role |-> NoRole, stack |-> <<>>, result |-> {}]
    /\ user_roles = <<>>
    /\ tenants = InitTenants

NextReset ==
    \/ Tick
    \/ /\ Len(tokens) < MaxTokens
       /\ \E t \in LoginTenants, e \in ResetEmails : RequestReset(t, e)
    \/ /\ Len(tokens) < MaxTokens
       /\ \E u \in ResetUsers : AdminResetPassword(u)
    \/ \E p \in Procs, t \in TokenInputs, npw \in NewPasswords : ResetLookup(p, t, npw)
    \/ \E p \in Procs : ResetStep(p)

SpecReset == InitReset /\ [][NextReset]_vars

(***************************************************************************)
(* LogoutView.logout_all, UserViewSet.revoke_sessions and                  *)
(* UserViewSet.sessions                                                    *)
(***************************************************************************)
\* the workers whose login for user u has passed authentication and has not
\* yet created its session
LoginsUnderWay(u) ==
    {q \in Procs : req[q].user = u /\ req[q].pc \in {"login_ok", "login_session"}}

\* logout_all (lines 650-656) and revoke_sessions (lines 287-293): the UPDATE
\* is the call's first statement.  began and pending note what the tables and
\* the other workers were at that moment.
RevokeAll(p, u) ==
    /\ req[p].pc = "idle"
    /\ sessions' = RevokeSessionsOf(u)
    /\ req' = [req EXCEPT ![p] = [Done("revoke_all", 0, 0) EXCEPT
                                     !.pc = "revoke_log", !.user = u,
                                     !.began = Len(sessions),
                                     !.pending = LoginsUnderWay(u)]]
    /\ UNCHANGED <<now, users, history, tokens, parent_role, permissions, call, user_roles, tenants>>

\* log_activity and the response (lines 658-666, 295-302)
RevokeAllReturn(p) ==
    /\ req[p].pc = "revoke_log"
    /\ req' = [req EXCEPT ![p] = [Done("revoke_all", 0, 200) EXCEPT
                                     !.user = req[p].user, !.began = req[p].began]]
    /\ UNCHANGED <<now, users, sessions, history, tokens, parent_role, permissions, call,
                   user_roles, tenants>>

\* UserSession.objects.filter(user=user, is_active=True)
ActiveSessionsOf(u) ==
    {i \in 1..Len(sessions) : sessions[i].user = u /\ sessions[i].is_active}

\* UserViewSet.sessions: the user's active sessions
ListSessions(p, u) ==
    /\ req[p].pc = "idle"
    /\ req' = [req EXCEPT ![p] = [Done("sessions", 0, 200) EXCEPT
                                     !.user = u, !.listed = ActiveSessionsOf(u)]]
    /\ UNCHANGED <<now, users, sessions, history, tokens, parent_role, permissions, call,
                   user_roles, tenants>>

\* a session lifetime passes
TickSession ==
    /\ now + SESSION_MINUTES <= MaxSessionTime
    /\ now' = now + SESSION_MINUTES
    /\ UNCHANGED <<users, sessions, history, tokens, req, parent_role, permissions, call,
                   user_roles, tenants>>

SessionUsers == {"u1"}                  \* the users SpecSessions logs in and revokes
SessionPasswords == {"pwA"}             \* the passwords SpecSessions logs in with

NextSessions ==
    \/ TickSession
    \/ /\ Len(sessions) + Cardinality(InFlight) < MaxSessions
       /\ \E p \in Procs, u \in SessionUsers, pw \in SessionPasswords :
             LoginResolve(p, TenantOf(u), EmailOf(u), pw)
    \/ \E p \in Procs : LoginOkReset(p)
    \/ \E p \in Procs : LoginOkSession(p)
    \/ \E p \in Procs : LoginOkHistory(p)
    \/ \E p \in Procs, u \in SessionUsers : RevokeAll(p, u)
    \/ \E p \in Procs : RevokeAllReturn(p)
    \/ \E p \in Procs, u \in SessionUsers : ListSessions(p, u)

SpecSessions == InitCommon /\ [][NextSessions]_vars

(***************************************************************************)
(* UserViewSet.activate and deactivate; logins at either tenant            *)
(***************************************************************************)
\* deactivate, lines 213-223: is_active = False, saved with update_fields
DeactivateSave(p, u) ==
    /\ req[p].pc = "idle"
    /\ users[u].is_active
    /\ users' = [users EXCEPT ![u].is_active = FALSE]
    /\ req' = [req EXCEPT ![p] = [Done("deactivate", 0, 0) EXCEPT
                                     !.pc = "deactivate_revoke", !.user = u]]
    /\ UNCHANGED <<now, sessions, history, tokens, parent_role, permissions, call, user_roles, tenants>>

\* deactivate, lines 225-237: the user's sessions are revoked
DeactivateRevoke(p) ==
    /\ req[p].pc = "deactivate_revoke"
    /\ sessions' = RevokeSessionsOf(req[p].user)
    /\ req' = [req EXCEPT ![p] = Done("deactivate", 0, 200)]
    /\ UNCHANGED <<now, users, history, tokens, parent_role, permissions, call, user_roles, tenants>>

\* activate, lines 196-209
Activate(p, u) ==
    /\ req[p].pc = "idle"
    /\ ~users[u].is_active
    /\ users' = [users EXCEPT ![u].is_active = TRUE]
    /\ req' = [req EXCEPT ![p] = Done("activate", 0, 200)]
    /\ UNCHANGED <<now, sessions, history, tokens, parent_role, permissions, call, user_roles, tenants>>

AccessEmails == {"u1@x", "u2@x"}        \* the addresses SpecAccess logs in with
AccessUsers == {"u1"}                   \* the users an admin deactivates in SpecAccess

\* at most n logins have been started: every one is in flight, or has left an
\* audit row, or was the last request of its worker, answered 401
AccessBudget(n) ==
    Len(history) + Cardinality(InFlight)
        + Cardinality({p \in Procs : req[p].pc = "idle" /\ req[p].status = 401}) < n

NextAccess ==
    \/ /\ AccessBudget(MaxAccessAttempts)
       /\ \E p \in Procs, t \in Tenants, e \in AccessEmails, pw \in Passwords :
             LoginResolve(p, t, e, pw)
    \/ \E p \in Procs : LoginStep(p)
    \/ \E p \in Procs, u \in AccessUsers : DeactivateSave(p, u)
    \/ \E p \in Procs : DeactivateRevoke(p)
    \/ \E p \in Procs, u \in AccessUsers : Activate(p, u)

SpecAccess == InitCommon /\ [][NextAccess]_vars

(***************************************************************************)
(* LogoutView.logout, UserViewSet.change_password and UserViewSet.destroy, *)
(* next to every other view that revokes sessions                          *)
(***************************************************************************)
RevokeWithoutStamp(session, t) == [session EXCEPT !.is_active = FALSE]
\* UserSession.revoke
revoke(session, t) == [session EXCEPT !.is_active = FALSE, !.revoked_at = t]

SessionsByKeyOfAnyone(key, u) ==
    {i \in 1..Len(sessions) : /\ sessions[i].session_key = key
                              /\ sessions[i].is_active}
\* UserSession.objects.get(session_key=key, user=u, is_active=True): the rows
\* it matches, none for DoesNotExist
SessionsByKey(key, u) ==
    {i \in 1..Len(sessions) : /\ sessions[i].session_key = key
                              /\ sessions[i].user = u
                              /\ sessions[i].is_active}

\* permission_classes = [IsAuthenticated]: the requester presents a credential
\* that a login of u issued
IsAuthenticated(u) == \E i \in 1..Len(sessions) : sessions[i].user = u

\* logout (lines 616-645) by user u: named is the session_id of the request's
\* data, c the request's session cookie
Logout(p, u, named, c) ==
    /\ req[p].pc = "idle"
    /\ IsAuthenticated(u)
    /\ LET session_key == IF named # None THEN named ELSE c IN
       sessions' = [i \in 1..Len(sessions) |->
                       IF session_key # None /\ i \in SessionsByKey(session_key, u)
                       THEN revoke(sessions[i], now)
                       ELSE sessions[i]]
    /\ req' = [req EXCEPT ![p] = [Done("logout", 0, 200) EXCEPT !.user = u]]
    /\ UNCHANGED <<now, users, history, tokens, parent_role, permissions, call, user_roles,
                   tenants>>

\* change_password (lines 396-436) by user u, for a request that passed the
\* serializer: the password and its stamp are saved, then every active session
\* of u whose key is not the request's session cookie c is revoked
ChangePassword(p, u, npw, c) ==
    /\ req[p].pc = "idle"
    /\ IsAuthenticated(u)
    /\ users' = [users EXCEPT ![u].password = make_password(npw),
                              ![u].password_changed_at = now]
    /\ sessions' = [i \in 1..Len(sessions) |->
                       IF /\ sessions[i].user = u
                          /\ sessions[i].is_active
                          /\ sessions[i].session_key # c
                       THEN [sessions[i] EXCEPT !.is_active = FALSE, !.revoked_at = now]
                       ELSE sessions[i]]
    /\ req' = [req EXCEPT ![p] = [Done("change_password", 0, 200) EXCEPT !.user = u]]
    /\ UNCHANGED <<now, history, tokens, parent_role, permissions, call, user_roles, tenants>>

\* destroy (lines 162-192) of user u by user actor.  instance.soft_delete() is
\* apps.core's and writes none of the columns kept here.
Destroy(p, actor, u) ==
    /\ req[p].pc = "idle"
    /\ IF u = actor
       THEN /\ req' = [req EXCEPT ![p] = [Done("destroy", 0, 400) EXCEPT !.user = u]]
            /\ UNCHANGED sessions
       ELSE /\ sessions' = RevokeSessionsOf(u)
            /\ req' = [req EXCEPT ![p] = [Done("destroy", 0, 204) EXCEPT !.user = u]]
    /\ UNCHANGED <<now, users, history, tokens, parent_role, permissions, call, user_roles,
                   tenants>>

LogoutUsers == {"u1"}                   \* the users SpecLogout logs in and out
LogoutPasswords == {"pwA"}              \* the passwords SpecLogout logs in with
\* the session_id values a logout names: none, or the identifier or the key of
\* a session the server created
LogoutNames ==
    {None} \cup {sessions[i].id : i \in 1..Len(sessions)}
           \cup {sessions[i].session_key : i \in 1..Len(sessions)}

NextLogout ==
    \/ /\ LoginBudget(MaxLogoutLogins)
       /\ \E p \in Procs, u \in LogoutUsers, pw \in LogoutPasswords :
             LoginResolve(p, TenantOf(u), EmailOf(u), pw)
    \/ \E p \in Procs : LoginStep(p)
    \/ \E p \in Procs, c \in SessionCookies : CreateSession(p, c)
    \/ \E p \in Procs, u \in LogoutUsers, named \in LogoutNames, c \in ClientCookies :
          Logout(p, u, named, c)
    \/ \E p \in Procs, u \in LogoutUsers : RevokeAll(p, u)
    \/ \E p \in Procs : RevokeAllReturn(p)
    \/ \E p \in Procs, u \in LogoutUsers : DeactivateSave(p, u)
    \/ \E p \in Procs : DeactivateRevoke(p)
    \/ \E p \in Procs, u \in LogoutUsers, npw \in NewPasswords, c \in ClientCookies :
          ChangePassword(p, u, npw, c)
    \/ \E p \in Procs, actor \in Users, u \in LogoutUsers : Destroy(p, actor, u)
    \/ /\ Len(tokens) < MaxLogoutTokens
       /\ \E u \in LogoutUsers : AdminResetPassword(u)
    \/ \E p \in Procs, t \in TokenInputs, npw \in NewPasswords : ResetLookup(p, t, npw)
    \/ \E p \in Procs : ResetStep(p)

SpecLogout == InitCommon /\ [][NextLogout]_vars

LockUsers == {"u1"}                     \* the users SpecLock logs in and unlocks
LockEmails == {"u1@x"}

\* login and unlock of one user
NextLock ==
    \/ Tick
    \/ \E p \in Procs : LoginStep(p)
    \/ /\ LoginBudget(MaxAttempts)
       /\ \E p \in Procs, t \in LoginTenants, e \in LockEmails, pw \in Passwords :
             LoginResolve(p, t, e, pw)
    \/ \E u \in LockUsers : Unlock(u)

SpecLock == InitCommon /\ [][NextLock]_vars

\* logins of both users, and logouts by either that name any session there is
NextOwner ==
    \/ /\ LoginBudget(MaxLogoutLogins)
       /\ \E p \in Procs, u \in Users, pw \in Passwords :
             LoginResolve(p, TenantOf(u), EmailOf(u), pw)
    \/ \E p \in Procs : LoginStep(p)
    \/ \E p \in Procs, u \in Users, named \in LogoutNames, c \in ClientCookies :
          Logout(p, u, named, c)

SpecOwner == InitCommon /\ [][NextOwner]_vars

(***************************************************************************)
(* UserViewSet.create and RegistrationView.register                        *)
(***************************************************************************)
QuotaTenants == {"t2"}                  \* the tenant SpecQuota adds users to
NewUserNames == <<"n1", "n2", "n3", "n4", "n5", "n6">>   \* the keys of the rows created
InviteInputs == {"valid", "invalid", "none"}

\* User.objects.filter(tenant=tenant)
TenantUsers(t) == {u \in DOMAIN users : TenantOf(u) = t}

\* the key of the next row inserted
NextUserName == NewUserNames[Cardinality(DOMAIN users) - Cardinality(Users) + 1]

\* the row serializer.save and User.objects.create_user insert
NewUser ==
    [password |-> make_password("pwA"), failed_login_attempts |-> 0,
     locked_until |-> NoTime, is_active |-> TRUE,
     must_change_password |-> FALSE, password_changed_at |-> NoTime]

\* create, lines 95-106, for a request routed to tenant t: the limit check
CreateCheck(p, t) ==
    /\ req[p].pc = "idle"
    /\ IF tenants[t].max_users <= Cardinality(TenantUsers(t))
       THEN req' = [req EXCEPT ![p] = Done("create", 0, 403)]
       ELSE req' = [req EXCEPT ![p] = [Done("create", 0, 0) EXCEPT
                                          !.pc = "create_save", !.tenant = t]]
    /\ UNCHANGED <<now, users, sessions, history, tokens, parent_role, permissions, call,
                   user_roles, tenants>>

\* create, lines 108-130: serializer.save(tenant=tenant) and the response
CreateSave(p) ==
    /\ req[p].pc = "create_save"
    /\ users' = users @@ (NextUserName :> NewUser)
    /\ req' = [req EXCEPT ![p] = [Done("create", 0, 201) EXCEPT !.user = NextUserName]]
    /\ UNCHANGED <<now, sessions, history, tokens, parent_role, permissions, call,
                   user_roles, tenants>>

\* register (lines 677-766) with an invite code: invite says whether
\* TenantInvite.objects.get finds an unused, unexpired invite of tenant t for
\* the code, or the request carries no code (and does not create a tenant)
Register(p, t, invite) ==
    /\ req[p].pc = "idle"
    /\ IF invite = "valid"
       THEN /\ users' = users @@ (NextUserName :> NewUser)
            /\ req' = [req EXCEPT ![p] = [Done("register", 0, 201) EXCEPT
                                               !.user = NextUserName]]
       ELSE /\ req' = [req EXCEPT ![p] = Done("register", 0, 400)]
            /\ UNCHANGED users
    /\ UNCHANGED <<now, sessions, history, tokens, parent_role, permissions, call,
                   user_roles, tenants>>

\* fewer than n users have been, or are about to be, created
CreationBudget(n) ==
    Cardinality(DOMAIN users) - Cardinality(Users)
        + Cardinality({p \in Procs : req[p].pc = "create_save"}) < n

InitQuota ==
    /\ now = 0
    /\ users = InitUsers
    /\ sessions = <<>>
    /\ history = <<>>
    /\ tokens = <<>>
    /\ req = [p \in Procs |-> Done("", 0, 0)]
    /\ parent_role = [r \in Roles |-> NoRole]
    /\ permissions = [r \in Roles |-> {}]
    /\ call = [pc |-> "none", role |-> NoRole, stack |-> <<>>, result |-> {}]
    /\ user_roles = <<>>
    /\ tenants = [t \in Tenants |->
                     IF t \in QuotaTenants
                     THEN [InitTenants[t] EXCEPT !.max_users = QuotaUnderTest]
                     ELSE InitTenants[t]]

NextQuota ==
    \/ /\ CreationBudget(MaxNewUsers)
       /\ \E p \in Procs, t \in QuotaTenants : CreateCheck(p, t)
    \/ \E p \in Procs : CreateSave(p)
    \/ /\ CreationBudget(MaxNewUsers)
       /\ \E p \in Procs, t \in QuotaTenants, invite \in InviteInputs : Register(p, t, invite)

SpecQuota == InitQuota /\ [][NextQuota]_vars

(***************************************************************************)
(* UserViewSet.assign_role and remove_role                                 *)
(***************************************************************************)
\* the row get_or_create inserts: the view passes no organization and no team
NewUserRole(u, r) == [user |-> u, role |-> r, organization |-> Null, team |-> Null]

AssignmentsOfAnyRole(u, r) == {i \in 1..Len(user_roles) : user_roles[i].user = u}
\* the rows UserRole.objects.get(user=user, role=role) matches
AssignmentsOf(u, r) ==
    {i \in 1..Len(user_roles) : user_roles[i].user = u /\ user_roles[i].role = r}

\* unique_together (user, role, organization, team) as PostgreSQL enforces it:
\* two rows collide only if they agree on all four columns and none is NULL
violates_unique(row) ==
    /\ row.organization # Null
    /\ row.team # Null
    /\ \E i \in 1..Len(user_roles) : user_roles[i] = row

\* lines 318-330 and the get of get_or_create: one row is AlreadyAssigned
\* (400), several raise MultipleObjectsReturned (500), an unknown role_id is
\* 404
AssignRoleGet(p, u, r) ==
    /\ req[p].pc = "idle"
    /\ LET found == Cardinality(AssignmentsOf(u, r)) IN
       IF r = NoRole
       THEN req' = [req EXCEPT ![p] = Done("assign_role", 0, 404)]
       ELSE IF found = 1
       THEN req' = [req EXCEPT ![p] = Done("assign_role", 0, 400)]
       ELSE IF found > 1
       THEN req' = [req EXCEPT ![p] = Done("assign_role", 0, 500)]
       ELSE req' = [req EXCEPT ![p] = [Done("assign_role", 0, 0) EXCEPT
                                          !.pc = "assign_create", !.user = u, !.role = r]]
    /\ UNCHANGED <<now, users, sessions, history, tokens, parent_role, permissions, call,
                   user_roles, tenants>>

\* the create of get_or_create, and lines 339-355: on IntegrityError the row
\* is read again and the answer is AlreadyAssigned
AssignRoleCreate(p) ==
    /\ req[p].pc = "assign_create"
    /\ LET row == NewUserRole(req[p].user, req[p].role) IN
       IF violates_unique(row)
       THEN /\ req' = [req EXCEPT ![p] = Done("assign_role", 0, 400)]
            /\ UNCHANGED user_roles
       ELSE /\ req' = [req EXCEPT ![p] = Done("assign_role", 0, 201)]
            /\ user_roles' = Append(user_roles, row)
    /\ UNCHANGED <<now, users, sessions, history, tokens, parent_role, permissions, call, tenants>>

\* the sequence without its i-th element
Without(seq, i) == [j \in 1..(Len(seq) - 1) |-> IF j < i THEN seq[j] ELSE seq[j + 1]]

\* UserViewSet.remove_role: UserRole.objects.get(user=user, role_id=role_id),
\* then delete
RemoveRole(p, u, r) ==
    /\ req[p].pc = "idle"
    /\ LET found == AssignmentsOf(u, r) IN
       IF Cardinality(found) = 1
       THEN /\ user_roles' = Without(user_roles, CHOOSE i \in found : TRUE)
            /\ req' = [req EXCEPT ![p] = Done("remove_role", 0, 204)]
       ELSE /\ UNCHANGED user_roles
            /\ req' = [req EXCEPT ![p] = Done("remove_role", 0,
                                               IF found = {} THEN 404 ELSE 500)]
    /\ UNCHANGED <<now, users, sessions, history, tokens, parent_role, permissions, call, tenants>>

AssignUsers == {"u1"}                   \* the users SpecAssign assigns roles to
RoleInputs == Roles \cup {NoRole}       \* the role_id of a request: a role's, or unknown

NextAssign ==
    \/ /\ Len(user_roles) + Cardinality(InFlight) < MaxUserRoles
       /\ \E p \in Procs, u \in AssignUsers, r \in RoleInputs : AssignRoleGet(p, u, r)
    \/ \E p \in Procs : AssignRoleCreate(p)
    \/ \E p \in Procs, u \in AssignUsers, r \in Roles : RemoveRole(p, u, r)

SpecAssign == InitCommon /\ [][NextAssign]_vars

(***************************************************************************)
(* Role.get_all_permissions                                                *)
(***************************************************************************)
FrameWithoutOwn(r) == [role |-> r, permissions |-> {}, returning |-> FALSE]
\* the frame of one activation of get_all_permissions: self and the local set
Frame(r) == [role |-> r, permissions |-> permissions[r], returning |-> FALSE]

Top == call.stack[Len(call.stack)]

\* RoleViewSet.assign_permission: role.permissions.add(permission)
AssignPermission(r, perm) ==
    /\ call.pc # "running"
    /\ perm \notin permissions[r]
    /\ permissions' = [permissions EXCEPT ![r] = @ \cup {perm}]
    /\ UNCHANGED <<now, users, sessions, history, tokens, req, parent_role, call, user_roles, tenants>>

\* RoleViewSet.permissions calls role.get_all_permissions(): line 374 of the
\* outermost activation
GetAllPermissions(r) ==
    /\ call.pc # "running"
    /\ call' = [pc |-> "running", role |-> r, stack |-> <<Frame(r)>>, result |-> {}]
    /\ UNCHANGED <<now, users, sessions, history, tokens, req, parent_role, permissions, user_roles,
                   tenants>>

\* lines 375-376: the activation on top has a parent and calls
\* parent_role.get_all_permissions(); the interpreter raises RecursionError
\* when the stack is full
CallParent ==
    /\ call.pc = "running"
    /\ ~Top.returning
    /\ parent_role[Top.role] # NoRole
    /\ IF Len(call.stack) < RecursionLimit
       THEN call' = [call EXCEPT !.stack = Append(@, Frame(parent_role[Top.role]))]
       ELSE call' = [call EXCEPT !.pc = "raised", !.stack = <<>>]
    /\ UNCHANGED <<now, users, sessions, history, tokens, req, parent_role, permissions, user_roles,
                   tenants>>

\* line 377: the activation on top returns its set; the caller adds it to its
\* own (line 376) and is the next to return
ReturnPermissions ==
    /\ call.pc = "running"
    /\ Top.returning \/ parent_role[Top.role] = NoRole
    /\ IF Len(call.stack) = 1
       THEN call' = [call EXCEPT !.pc = "returned", !.stack = <<>>,
                                 !.result = Top.permissions]
       ELSE call' = [call EXCEPT !.stack =
                        [SubSeq(@, 1, Len(@) - 1) EXCEPT ![Len(@) - 1] =
                            [call.stack[Len(call.stack) - 1] EXCEPT
                                !.permissions = @ \cup Top.permissions,
                                !.returning = TRUE]]]
    /\ UNCHANGED <<now, users, sessions, history, tokens, req, parent_role, permissions, user_roles,
                   tenants>>

\* any assignment of parents may be stored: parent_role is a plain nullable
\* foreign key to Role, written through RoleViewSet's create and update
InitRoles ==
    /\ now = 0
    /\ users = InitUsers
    /\ sessions = <<>>
    /\ history = <<>>
    /\ tokens = <<>>
    /\ req = [p \in Procs |-> Done("", 0, 0)]
    /\ parent_role \in [Roles -> Roles \cup {NoRole}]
    /\ permissions = [r \in Roles |-> {}]
    /\ call = [pc |-> "none", role |-> NoRole, stack |-> <<>>, result |-> {}]
    /\ user_roles = <<>>
    /\ tenants = InitTenants

NextRoles ==
    \/ \E r \in Roles, perm \in Perms : AssignPermission(r, perm)
    \/ \E r \in Roles : GetAllPermissions(r)
    \/ CallParent
    \/ ReturnPermissions

SpecRoles == InitRoles /\ [][NextRoles]_vars

(***************************************************************************)
(* PermissionViewSet.check over UserRole rows with a validity window       *)
(***************************************************************************)
IsValidIgnoresExpiry(row, t) == row.valid_from <= t
\* UserRole.is_valid
is_valid(row, t) ==
    IF row.valid_from > t THEN FALSE
    ELSE IF row.valid_until # NoTime /\ row.valid_until < t THEN FALSE
    ELSE TRUE

\* Role.get_all_permissions as a function, for a hierarchy without a cycle
RECURSIVE all_permissions(_)
all_permissions(r) ==
    permissions[r] \cup (IF parent_role[r] # NoRole
                         THEN all_permissions(parent_role[r])
                         ELSE {})

\* request.user.has_perm(perm) for a user that is no superuser: the union of
\* the permissions of the roles of the user's assignments valid at time t
has_perm(u, perm, t) ==
    \E i \in 1..Len(user_roles) :
       /\ user_roles[i].user = u
       /\ is_valid(user_roles[i], t)
       /\ perm \in all_permissions(user_roles[i].role)

PermUsers == {"u1"}                     \* the users SpecPerm grants roles to
PermRoles == {"A", "B"}                 \* the roles SpecPerm grants
PermInputs == {"p1", ""}                \* 'resource:action', "" with one missing
ValidFromInputs == {0, 3 * LOCK_MINUTES}
ValidUntilInputs == {NoTime, LOCK_MINUTES}

\* a UserRole row is stored for (u, r) with the window vf..vu
GrantRole(u, r, vf, vu) ==
    /\ user_roles' = Append(user_roles,
                            [user |-> u, role |-> r, organization |-> Null, team |-> Null,
                             valid_from |-> vf, valid_until |-> vu])
    /\ UNCHANGED <<now, users, sessions, history, tokens, req, parent_role, permissions, call,
                   tenants>>

\* check (lines 897-915) by user u: the call's arguments and time are kept
\* with its answer
CheckPermission(u, perm) ==
    /\ IF perm = ""
       THEN call' = [pc |-> "bad_request", role |-> NoRole, stack |-> <<u, perm, now>>,
                     result |-> FALSE]
       ELSE call' = [pc |-> "returned", role |-> NoRole, stack |-> <<u, perm, now>>,
                     result |-> has_perm(u, perm, now)]
    /\ UNCHANGED <<now, users, sessions, history, tokens, req, parent_role, permissions,
                   user_roles, tenants>>

\* role B inherits from role A
InitPerm ==
    /\ now = 0
    /\ users = InitUsers
    /\ sessions = <<>>
    /\ history = <<>>
    /\ tokens = <<>>
    /\ req = [p \in Procs |-> Done("", 0, 0)]
    /\ parent_role = [r \in Roles |-> IF r = "B" THEN "A" ELSE NoRole]
    /\ permissions = [r \in Roles |-> {}]
    /\ call = [pc |-> "none", role |-> NoRole, stack |-> <<>>, result |-> {}]
    /\ user_roles = <<>>
    /\ tenants = InitTenants

NextPerm ==
    \/ Tick
    \/ /\ Len(user_roles) < MaxGrants
       /\ \E u \in PermUsers, r \in PermRoles, vf \in ValidFromInputs, vu \in ValidUntilInputs :
             GrantRole(u, r, vf, vu)
    \/ \E r \in PermRoles, perm \in PermInputs \ {""} : AssignPermission(r, perm)
    \/ \E u \in PermUsers, perm \in PermInputs : CheckPermission(u, perm)

SpecPerm == InitPerm /\ [][NextPerm]_vars

(***************************************************************************)
(* Tenant.is_subscription_active                                           *)
(***************************************************************************)
\* Tenant.is_subscription_active at time t
is_subscription_active(tenant, t) ==
    IF tenant.subscription_status # "active" THEN FALSE
    ELSE IF tenant.subscription_expires_at # NoTime /\ tenant.subscription_expires_at < t
    THEN FALSE
    ELSE TRUE

SubscriptionTenants == {"t1"}           \* the tenant SpecTenant looks at
ExpiryInputs == {NoTime, LOCK_MINUTES, 2 * LOCK_MINUTES}

\* the subscription columns of tenant t are stored anew
SetSubscription(t, st, ex) ==
    /\ tenants[t].subscription_status # st \/ tenants[t].subscription_expires_at # ex
    /\ tenants' = [tenants EXCEPT ![t].subscription_status = st,
                                  ![t].subscription_expires_at = ex]
    /\ UNCHANGED <<now, users, sessions, history, tokens, req, parent_role, permissions, call,
                   user_roles>>

\* a call of tenant t's is_subscription_active: the call's argument and time
\* are kept with its answer
IsSubscriptionActive(t) ==
    /\ call' = [pc |-> "returned", role |-> NoRole, stack |-> <<t, now>>,
                result |-> is_subscription_active(tenants[t], now)]
    /\ UNCHANGED <<now, users, sessions, history, tokens, req, parent_role, permissions,
                   user_roles, tenants>>

NextTenant ==
    \/ Tick
    \/ \E t \in SubscriptionTenants, st \in SubscriptionStatuses, ex \in ExpiryInputs :
          SetSubscription(t, st, ex)
    \/ \E t \in SubscriptionTenants : IsSubscriptionActive(t)

SpecTenant == InitCommon /\ [][NextTenant]_vars

(***************************************************************************)
(* User.generate_api_key, User.revoke_api_key and User.add_session         *)
(***************************************************************************)
\* secrets.token_urlsafe(nbytes): nbytes random bytes in URL-safe base64
\* without padding
token_urlsafe(nbytes) == <<"urlsafe", nbytes>>
EmptyString == <<>>                     \* ''

\* the number of characters of an api_key value
StringLength(str) == IF str = EmptyString THEN 0 ELSE (4 * str[2] + 2) \div 3

\* the User rows with their api_key, api_key_created_at and active_sessions
\* columns, at their defaults
InitUserRows ==
    [u \in Users |->
        InitUsers[u] @@ [api_key |-> EmptyString, api_key_created_at |-> NoTime,
                         active_sessions |-> <<>>]]

\* save(update_fields=['api_key', 'api_key_created_at']) of instance self for
\* row u: PostgreSQL refuses a value longer than the column (DataError)
SaveApiKey(u, self) ==
    IF StringLength(self.api_key) > API_KEY_MAX_LENGTH
    THEN /\ call' = [pc |-> "raised", role |-> NoRole, stack |-> <<u, self.api_key>>,
                     result |-> {}]
         /\ UNCHANGED users
    ELSE /\ call' = [pc |-> "returned", role |-> NoRole, stack |-> <<u, self.api_key>>,
                     result |-> {}]
         /\ users' = [users EXCEPT ![u].api_key = self.api_key,
                                   ![u].api_key_created_at = self.api_key_created_at]

\* generate_api_key on the instance of row u
GenerateApiKey(u) ==
    /\ SaveApiKey(u, [users[u] EXCEPT !.api_key = token_urlsafe(API_KEY_BYTES),
                                      !.api_key_created_at = now])
    /\ UNCHANGED <<now, sessions, history, tokens, req, parent_role, permissions, user_roles,
                   tenants>>

\* revoke_api_key on the instance of row u
RevokeApiKey(u) ==
    /\ SaveApiKey(u, [users[u] EXCEPT !.api_key = EmptyString,
                                      !.api_key_created_at = NoTime])
    /\ UNCHANGED <<now, sessions, history, tokens, req, parent_role, permissions, user_roles,
                   tenants>>

LastEleven(list) ==
    SubSeq(list, IF Len(list) > LAST_SESSIONS + 1 THEN Len(list) - LAST_SESSIONS ELSE 1,
           Len(list))
\* list[-10:]
LastTen(list) ==
    SubSeq(list, IF Len(list) > LAST_SESSIONS THEN Len(list) - LAST_SESSIONS + 1 ELSE 1,
           Len(list))

\* the dict add_session builds
SessionEntry(session_id, ip_address, t) ==
    [id |-> session_id, ip_address |-> ip_address, created_at |-> t]

\* add_session(session_id, ip_address, user_agent) on the instance of row u
AddSession(u, session_id, ip_address) ==
    /\ users' = [users EXCEPT ![u].active_sessions =
                    LastTen(Append(@, SessionEntry(session_id, ip_address, now)))]
    /\ UNCHANGED <<now, sessions, history, tokens, req, parent_role, permissions, call,
                   user_roles, tenants>>

HistoryUsers == {"u1"}                  \* the users SpecUserRow adds sessions to
IpAddresses == {"ip1", "ip2"}

\* the identifier of the next session added for u: one more than the last
NextSessionId(u) ==
    IF users[u].active_sessions = <<>> THEN 1
    ELSE users[u].active_sessions[Len(users[u].active_sessions)].id + 1

InitUserRow ==
    /\ now = 0
    /\ users = InitUserRows
    /\ sessions = <<>>
    /\ history = <<>>
    /\ tokens = <<>>
    /\ req = [p \in Procs |-> Done("", 0, 0)]
    /\ parent_role = [r \in Roles |-> NoRole]
    /\ permissions = [r \in Roles |-> {}]
    /\ call = [pc |-> "none", role |-> NoRole, stack |-> <<>>, result |-> {}]
    /\ user_roles = <<>>
    /\ tenants = InitTenants

NextUserRow ==
    \/ \E u \in Users : GenerateApiKey(u)
    \/ \E u \in Users : RevokeApiKey(u)
    \/ \E u \in HistoryUsers, ip \in IpAddresses :
          /\ NextSessionId(u) <= MaxHistoryAdds
          /\ AddSession(u, NextSessionId(u), ip)

SpecUserRow == InitUserRow /\ [][NextUserRow]_vars

\* login against user rows that carry the active_sessions column
NextLoginRow ==
    \/ \E p \in Procs : LoginStep(p)
    \/ /\ LoginBudget(MaxAccessAttempts)
       /\ \E p \in Procs, t \in LoginTenants, e \in LoginEmails, pw \in Passwords :
             LoginResolve(p, t, e, pw)

SpecLoginRow == InitUserRow /\ [][NextLoginRow]_vars

(***************************************************************************)
(* Account lockout (SpecLogin)                                             *)
(***************************************************************************)
\* the LoginHistory rows of user u with the given failure reason
RowsOf(u, reason) ==
    {i \in 1..Len(history) : history[i].user = u /\ history[i].failure_reason = reason}

\* user u's lock is in force at time t
LockInForce(u, t) == users[u].locked_until # NoTime /\ users[u].locked_until > t

\* C1: the failed login that takes a user's counter from four to five stamps
\* locked_until with exactly now + 30 minutes, and a login attempt made while
\* locked_until is in the future is answered 423 (account locked) whatever
\* password it carries, and creates no session.
C1_FifthFailureLocks ==
    [][/\ \A p \in Procs :
            (/\ LoginFailSave(p)
             /\ req[p].fla = LOCK_THRESHOLD - 1
             /\ users[req[p].user].failed_login_attempts = req[p].fla)
            => /\ users'[req[p].user].failed_login_attempts = LOCK_THRESHOLD
               /\ users'[req[p].user].locked_until = now + LOCK_MINUTES
       /\ \A p \in Procs, t \in Tenants, e \in Emails, pw \in Passwords :
            (/\ LoginResolve(p, t, e, pw)
             /\ UserByEmail(t, e) # NoUser
             /\ LockInForce(UserByEmail(t, e), now))
            => /\ req'[p] = Done("login", 0, 423)
               /\ sessions' = sessions]_vars

\* five failures of u1 at time 0, then a sixth attempt answered 423
C1_Witness ==
    /\ now = 0
    /\ users["u1"].failed_login_attempts = LOCK_THRESHOLD
    /\ users["u1"].locked_until = LOCK_MINUTES
    /\ Len(history) = LOCK_THRESHOLD + 1
    /\ Cardinality(RowsOf("u1", "invalid_credentials")) = LOCK_THRESHOLD
    /\ history[Len(history)].failure_reason = "account_locked"
    /\ \E p \in Procs : req[p].pc = "idle" /\ req[p].status = 423
    /\ sessions = <<>>

\* C5: once every failed login of a user has completed, and no successful
\* login has reset the counter, failed_login_attempts equals the number of
\* failed logins recorded for the user, and the account has been locked when
\* that number reached five.
C5_NoLostIncrement ==
    \A u \in Users :
        (/\ InFlight = {}
         /\ \A i \in 1..Len(history) : history[i].user = u => ~history[i].success)
        => /\ users[u].failed_login_attempts = Cardinality(RowsOf(u, "invalid_credentials"))
           /\ Cardinality(RowsOf(u, "invalid_credentials")) >= LOCK_THRESHOLD
                => users[u].locked_until # NoTime

\* C6: the reset a successful login performs leaves failed_login_attempts at
\* zero and locked_until unset, whatever failures and lock preceded it.
C6_SuccessResets ==
    [][\A p \in Procs :
          LoginOkReset(p)
          => /\ users'[req[p].user].failed_login_attempts = 0
             /\ users'[req[p].user].locked_until = NoTime]_vars

\* a lock that elapsed, then a login with the right password
C6_Witness ==
    /\ Cardinality(RowsOf("u1", "invalid_credentials")) = LOCK_THRESHOLD
    /\ Len(history) = LOCK_THRESHOLD + 1
    /\ history[Len(history)].success
    /\ users["u1"].failed_login_attempts = 0
    /\ users["u1"].locked_until = NoTime
    /\ \E p \in Procs : req[p].pc = "idle" /\ req[p].status = 200

\* C7: a login attempt that resolves a user whose locked_until is in the
\* future appends exactly one LoginHistory row, with failure_reason
\* account_locked, ends there with status 423 whatever the password (the
\* password is never verified), and leaves every user row unchanged.
C7_LockedAttemptFrame ==
    [][\A p \in Procs, t \in Tenants, e \in Emails, pw \in Passwords :
          (/\ LoginResolve(p, t, e, pw)
           /\ UserByEmail(t, e) # NoUser
           /\ LockInForce(UserByEmail(t, e), now))
          => /\ history' = Append(history,
                    [user |-> UserByEmail(t, e), email |-> e, success |-> FALSE,
                     failure_reason |-> "account_locked"])
             /\ users' = users
             /\ req'[p].pc = "idle"
             /\ req'[p].status = 423]_vars

\* an attempt during the window of a lock stamped at minute 30: counter and
\* lock are as the fifth failure left them
C7_Witness ==
    /\ now = LOCK_MINUTES
    /\ Len(history) = LOCK_THRESHOLD + 1
    /\ history[Len(history)] = [user |-> "u1", email |-> "u1@x", success |-> FALSE,
                                failure_reason |-> "account_locked"]
    /\ Cardinality(RowsOf("u1", "invalid_credentials")) = LOCK_THRESHOLD
    /\ users["u1"].failed_login_attempts = LOCK_THRESHOLD
    /\ users["u1"].locked_until = 2 * LOCK_MINUTES
    /\ InFlight = {}

\* C8: a failed login that finds the user's lock elapsed (locked_until set
\* and not after now, nobody having touched the row since the request read
\* it) is the first of the five further failures a new lock takes, so it
\* leaves the account unlocked.
C8_ElapsedLockNeedsFiveMore ==
    [][\A p \in Procs :
          (/\ LoginFailSave(p)
           /\ users[req[p].user].locked_until # NoTime
           /\ users[req[p].user].locked_until <= now
           /\ users[req[p].user].locked_until = req[p].locked_until
           /\ users[req[p].user].failed_login_attempts = req[p].fla)
          => ~(users'[req[p].user].locked_until > now)]_vars

(***************************************************************************)
(* Password-reset tokens (SpecReset)                                       *)
(***************************************************************************)
\* worker p answered a reset_password request with success, consuming token t
ResetSucceeded(p, t) ==
    req[p].pc = "idle" /\ req[p].op = "reset" /\ req[p].status = 200 /\ req[p].token = t

\* token row i can still be consumed at time t
LiveToken(i, t) ==
    ~tokens[i].is_used /\ ~tokens[i].is_revoked /\ ~(tokens[i].expires_at < t)

\* C2: of two reset_password requests presenting the same token, at most one
\* succeeds (the other is answered with the invalid-token error).
C2_SingleConsumer ==
    \A p \in Procs, q \in Procs, t \in 1..Len(tokens) :
        (p # q /\ ResetSucceeded(p, t)) => ~ResetSucceeded(q, t)

\* C3: in every reachable state every user has at most one reset token that
\* is not used, not revoked and not expired.
C3_OneLiveTokenPerUser ==
    \A u \in Users :
        Cardinality({i \in 1..Len(tokens) : tokens[i].user = u /\ LiveToken(i, now)}) <= 1

\* C9: whenever a reset_password request has saved the new password of the
\* token's user, the token it presented is marked used.
C9_UsedWithPasswordChange ==
    \A p \in Procs :
        req[p].pc = "reset_mark" => tokens[req[p].token].is_used

\* C10: a reset_password request that presents a token no row holds, a used
\* token, a revoked token or a token whose expires_at is earlier than now is
\* answered 400 at once, and changes no user row, no token row and no session.
C10_InvalidTokenRejected ==
    [][\A p \in Procs, t \in TokenInputs, npw \in NewPasswords :
          (/\ ResetLookup(p, t, npw)
           /\ \/ t \notin 1..Len(tokens)
              \/ tokens[t].is_used
              \/ tokens[t].is_revoked
              \/ tokens[t].expires_at < now)
          => /\ req'[p] = Done("reset", 0, 400)
             /\ users' = users
             /\ tokens' = tokens
             /\ sessions' = sessions]_vars

\* a request answered 400 when every token issued is used, revoked or expired:
\* one expired unused, one revoked; u1's password and session are as they were
C10_Witness ==
    /\ \E p \in Procs : req[p].pc = "idle" /\ req[p].op = "reset" /\ req[p].status = 400
    /\ InFlight = {}
    /\ Len(tokens) = 2
    /\ tokens[1].is_revoked /\ ~tokens[1].is_used
    /\ ~tokens[2].is_revoked /\ ~tokens[2].is_used /\ tokens[2].expires_at < now
    /\ users["u1"].password = make_password("pwA")
    /\ Len(sessions) = 1 /\ sessions[1].is_active

\* C11: once a reset_password request has succeeded with a token, no older
\* token of the same user can still be consumed.
C11_ResetKillsOlderTokens ==
    \A p \in Procs, t \in 1..Len(tokens) :
        ResetSucceeded(p, t)
        => \A j \in 1..(t - 1) : tokens[j].user = tokens[t].user => ~LiveToken(j, now)

(***************************************************************************)
(* Role hierarchy (SpecRoles)                                              *)
(***************************************************************************)
\* C4: when the hierarchy holds the cycle a -> b -> a, get_all_permissions on
\* a ends by returning the union of a's and b's direct permissions.
C4_CycleReturnsUnion ==
    \A a \in Roles, b \in Roles :
        (/\ a # b
         /\ parent_role[a] = b
         /\ parent_role[b] = a
         /\ call.role = a
         /\ call.pc \in {"returned", "raised"})
        => /\ call.pc = "returned"
           /\ call.result = permissions[a] \cup permissions[b]

\* C34: in a hierarchy without a cycle, a call of get_all_permissions on a role
\* ends by returning exactly the union of the direct permissions of the role
\* and of every role reached from it by following parent_role.
C34_AcyclicReturnsAncestors ==
    [][LET RECURSIVE Up(_, _)
           Up(S, n) == IF n = 0 THEN S
                       ELSE Up((S \cup {parent_role[x] : x \in S}) \ {NoRole}, n - 1)
           Ancestors(r) == Up({r}, Cardinality(Roles))
           Acyclic == \A x \in Roles :
                         parent_role[x] # NoRole => x \notin Ancestors(parent_role[x])
       IN  (Acyclic /\ call.pc = "running" /\ call'.pc # "running")
              => /\ call'.pc = "returned"
                 /\ call'.result = UNION {permissions[x] : x \in Ancestors(call.role)}]_vars
\* A inherits from B and B from C; the call on A returned what B and C hold
C34_Witness ==
    /\ parent_role = [A |-> "B", B |-> "C", C |-> NoRole]
    /\ permissions = [A |-> {}, B |-> {"p2"}, C |-> {"p1"}]
    /\ call.pc = "returned"
    /\ call.role = "A"
    /\ call.result = {"p1", "p2"}

(***************************************************************************)
(* Sessions (SpecSessions)                                                 *)
(***************************************************************************)
\* session row i was created, after the revoke of worker p's call ran, by a
\* login that was already under way when the call began: with one other
\* worker, that is the first row added since, if that worker's login was
\* under way
ByLoginBegunBefore(p, i) == i = req[p].began + 1 /\ req[p].pending # {}

\* C12 as stated: when a revoke-all call returns, every session of the user
\* that existed before the call is inactive with revoked_at set, and every
\* session of the user that is still active was created by a login that
\* started after the call began.
C12_OnlyLaterLoginsSurvive ==
    [][\A p \in Procs :
          RevokeAllReturn(p)
          => \A i \in 1..Len(sessions) :
                sessions[i].user = req[p].user
                => /\ i <= req[p].began
                        => ~sessions[i].is_active /\ sessions[i].revoked_at # NoTime
                   /\ sessions[i].is_active
                        => i > req[p].began /\ ~ByLoginBegunBefore(p, i)]_vars

\* C12 as amended: when a revoke-all call returns, every session of the user
\* that existed when its revoke ran is inactive with revoked_at set, so every
\* session of the user still active was created after the revoke ran.
C12_SnapshotRevoked ==
    [][\A p \in Procs :
          RevokeAllReturn(p)
          => \A i \in 1..Len(sessions) :
                sessions[i].user = req[p].user
                => /\ i <= req[p].began
                        => ~sessions[i].is_active /\ sessions[i].revoked_at # NoTime
                   /\ sessions[i].is_active => i > req[p].began]_vars

\* a revoke-all that returned after revoking one session, while the login that
\* created the second session has not yet written its audit row
C12_Witness ==
    /\ \E p \in Procs : /\ req[p].pc = "idle" /\ req[p].op = "revoke_all"
                        /\ req[p].status = 200 /\ req[p].began = 1
    /\ \E q \in Procs : req[q].pc = "login_history"
    /\ Len(sessions) = 2
    /\ ~sessions[1].is_active /\ sessions[1].revoked_at = now
    /\ sessions[2].is_active /\ sessions[2].revoked_at = NoTime

\* C13: the sessions UserViewSet.sessions reports as active never include one
\* whose expires_at is in the past.
C13_ExpiredNotListed ==
    [][\A p \in Procs, u \in Users :
          ListSessions(p, u)
          => \A i \in req'[p].listed : ~(sessions[i].expires_at < now)]_vars

(***************************************************************************)
(* Role assignment (SpecAssign)                                            *)
(***************************************************************************)
\* the UserRole rows holding the tuple (u, r, no organization, no team)
TupleRows(u, r) ==
    {i \in 1..Len(user_roles) : user_roles[i] = [user |-> u, role |-> r,
                                                 organization |-> Null, team |-> Null]}

\* the workers in the middle of an assign_role for (u, r)
Assigning(u, r) ==
    {q \in Procs : req[q].pc = "assign_create" /\ req[q].user = u /\ req[q].role = r}

\* C14: an assign_role with nobody else assigning the same tuple creates the
\* tuple's single row and answers 201; an assign_role that finds the tuple's
\* row answers 400 (already assigned) and changes no table.
C14_SecondAssignRefused ==
    [][/\ \A p \in Procs :
            (/\ AssignRoleCreate(p)
             /\ Assigning(req[p].user, req[p].role) = {p}
             /\ TupleRows(req[p].user, req[p].role) = {})
            => /\ req'[p] = Done("assign_role", 0, 201)
               /\ user_roles' = Append(user_roles,
                      [user |-> req[p].user, role |-> req[p].role,
                       organization |-> Null, team |-> Null])
       /\ \A p \in Procs, u \in Users, r \in Roles :
            (/\ AssignRoleGet(p, u, r)
             /\ Cardinality(TupleRows(u, r)) = 1)
            => /\ req'[p] = Done("assign_role", 0, 400)
               /\ user_roles' = user_roles
               /\ users' = users]_vars

\* one worker assigned role A to u1 and the next assign of the same tuple was
\* refused: one row
C14_Witness ==
    /\ InFlight = {}
    /\ \E p \in Procs : req[p].op = "assign_role" /\ req[p].status = 201
    /\ \E p \in Procs : req[p].op = "assign_role" /\ req[p].status = 400
    /\ user_roles = <<[user |-> "u1", role |-> "A", organization |-> Null, team |-> Null]>>

\* C15: however assign_role requests interleave, no (user, role) tuple without
\* organization and team ever has more than one UserRole row.
C15_OneRowPerTuple ==
    \A u \in Users, r \in Roles : Cardinality(TupleRows(u, r)) <= 1

\* C31: remove_role answers 404 and changes nothing when the user has no
\* assignment of the role, and deletes an assignment and answers 204 when the
\* user has one or more.
C31_RemoveRole ==
    [][\A p \in Procs, u \in AssignUsers, r \in Roles :
         RemoveRole(p, u, r) =>
             IF AssignmentsOf(u, r) = {}
             THEN req'[p].status = 404 /\ user_roles' = user_roles
             ELSE /\ req'[p].status = 204
                  /\ Len(user_roles') = Len(user_roles) - 1
                  /\ Cardinality(AssignmentsOf(u, r)') = Cardinality(AssignmentsOf(u, r)) - 1]_vars

(***************************************************************************)
(* Login (SpecAccess, SpecLogin)                                           *)
(***************************************************************************)
\* the users whose rows live in the schema of tenant t
UsersOf(t) == {u \in Users : TenantOf(u) = t}

AuditedStep(p, e) ==
    IF req'[p].pc = "idle"
    THEN /\ Len(history') = Len(history) + 1
         /\ SubSeq(history', 1, Len(history)) = history
         /\ history'[Len(history')].email = e
         /\ history'[Len(history')].success = (req'[p].status = 200)
         /\ ~history'[Len(history')].success
               => history'[Len(history')].failure_reason # ""
    ELSE history' = history

\* C17: every login request, whatever its outcome and whether or not its
\* address belongs to a user, appends exactly one LoginHistory row, with the
\* address, the outcome and (on failure) the reason.
C17_EveryAttemptAudited ==
    [][\A p \in Procs :
          /\ \A t \in Tenants, e \in Emails, pw \in Passwords :
                LoginResolve(p, t, e, pw) => AuditedStep(p, e)
          /\ LoginStep(p) => AuditedStep(p, req[p].email)]_vars

\* C18: the save of a login request that failed on the password leaves the
\* user's failed_login_attempts one higher than it was, appends one
\* invalid_credentials row, answers 401 and creates no session.
C18_WrongPasswordCountsOnce ==
    [][\A p \in Procs :
          LoginFailSave(p)
          => /\ users'[req[p].user].failed_login_attempts
                    = users[req[p].user].failed_login_attempts + 1
             /\ history' = Append(history,
                    [user |-> req[p].user, email |-> req[p].email, success |-> FALSE,
                     failure_reason |-> "invalid_credentials"])
             /\ sessions' = sessions
             /\ req'[p] = Done("login", 0, 401)]_vars

\* C19: a login with the right password for a user who is not locked and not
\* active is answered 403 at once, appends one inactive_account row, creates no
\* session and changes no user row.
C19_InactiveRejected ==
    [][\A p \in Procs, t \in Tenants, e \in Emails, pw \in Passwords :
          (/\ LoginResolve(p, t, e, pw)
           /\ UserByEmail(t, e) # NoUser
           /\ ~LockInForce(UserByEmail(t, e), now)
           /\ users[UserByEmail(t, e)].password = <<"argon2", pw>>
           /\ ~users[UserByEmail(t, e)].is_active)
          => /\ req'[p] = Done("login", 0, 403)
             /\ history' = Append(history,
                    [user |-> UserByEmail(t, e), email |-> e, success |-> FALSE,
                     failure_reason |-> "inactive_account"])
             /\ sessions' = sessions
             /\ users' = users]_vars

\* u1 was deactivated, then logged in with the right password
C19_Witness ==
    /\ ~users["u1"].is_active
    /\ users["u1"].failed_login_attempts = 0
    /\ users["u1"].locked_until = NoTime
    /\ Len(history) = 1
    /\ history[1] = [user |-> "u1", email |-> "u1@x", success |-> FALSE,
                     failure_reason |-> "inactive_account"]
    /\ \E p \in Procs : req[p].pc = "idle" /\ req[p].op = "login" /\ req[p].status = 403
    /\ sessions = <<>>

\* C20: a login with the right password for an active, unlocked user goes
\* through three writes in this order: the reset of the failure counter and
\* lock; the insert of one active session of that user under a key no session
\* has, with expires_at = now + the 7-day lifetime and revoked_at unset; the
\* insert of one success row in LoginHistory.  The answer is 200 and carries
\* the session's identifier, an access and a refresh credential.
C20_SuccessPath ==
    [][\A p \in Procs :
          /\ \A t \in Tenants, e \in Emails, pw \in Passwords :
                (/\ LoginResolve(p, t, e, pw)
                 /\ UserByEmail(t, e) # NoUser
                 /\ ~LockInForce(UserByEmail(t, e), now)
                 /\ users[UserByEmail(t, e)].password = <<"argon2", pw>>
                 /\ users[UserByEmail(t, e)].is_active)
                => /\ req'[p].pc = "login_ok"
                   /\ req'[p].user = UserByEmail(t, e)
                   /\ users' = users /\ sessions' = sessions /\ history' = history
          /\ (req[p].pc = "login_ok" /\ req'[p] # req[p])
                => /\ req'[p].pc = "login_session"
                   /\ users' = [users EXCEPT ![req[p].user] =
                                   [@ EXCEPT !.failed_login_attempts = 0,
                                             !.locked_until = NoTime]]
                   /\ sessions' = sessions /\ history' = history
          /\ (req[p].pc = "login_session" /\ req'[p] # req[p])
                => /\ req'[p].pc = "login_history"
                   /\ Len(sessions') = Len(sessions) + 1
                   /\ SubSeq(sessions', 1, Len(sessions)) = sessions
                   /\ LET new == sessions'[Len(sessions')] IN
                      /\ new.user = req[p].user
                      /\ new.is_active
                      /\ new.expires_at = now + SESSION_MINUTES
                      /\ new.revoked_at = NoTime
                      /\ \A i \in 1..Len(sessions) :
                            sessions[i].session_key # new.session_key
                      /\ req'[p].session_id = new.id
                   /\ users' = users /\ history' = history
          /\ (req[p].pc = "login_history" /\ req'[p] # req[p])
                => /\ history' = Append(history,
                          [user |-> req[p].user, email |-> req[p].email,
                           success |-> TRUE, failure_reason |-> ""])
                   /\ users' = users /\ sessions' = sessions
                   /\ req'[p].pc = "idle"
                   /\ req'[p].status = 200
                   /\ req'[p].session_id = req[p].session_id
                   /\ req'[p].access # <<>>
                   /\ req'[p].refresh # <<>>
                   /\ req'[p].access # req'[p].refresh]_vars

(***************************************************************************)
(* Session keys, logout and revocation (SpecLogout)                        *)
(***************************************************************************)
\* C21: every login that reaches the creation of its session creates it, under
\* a key that differs from the key of every session there is: the request goes
\* on to the audit row, the table has one row more, and all keys in it are
\* pairwise different.
C21_FreshKeyNoFailure ==
    [][\A p \in Procs :
          (req[p].pc = "login_session" /\ req'[p] # req[p])
             => /\ req'[p].pc = "login_history"
                /\ Len(sessions') = Len(sessions) + 1
                /\ \A i, j \in 1..Len(sessions') :
                      i # j => sessions'[i].session_key # sessions'[j].session_key]_vars

\* C22: a logout by user u that names the identifier a login of u returned
\* leaves the session of that identifier inactive, with revoked_at set.
C22_LogoutRevokesNamed ==
    [][\A p \in Procs, u \in Users, c \in ClientCookies :
          \A i \in 1..Len(sessions) :
             (sessions[i].user = u /\ Logout(p, u, sessions[i].id, c))
                => /\ ~sessions'[i].is_active
                   /\ sessions'[i].revoked_at # NoTime]_vars

\* C23: in every state, a session has revoked_at set exactly when it is not
\* active.
C23_RevokedIffInactive ==
    \A i \in 1..Len(sessions) :
       (sessions[i].revoked_at # NoTime) <=> ~sessions[i].is_active

\* two sessions of u1, the first revoked by a logout that named its key, the
\* second by the destroy of u1
C23_Witness ==
    /\ Len(sessions) = 2
    /\ \A i \in 1..2 : ~sessions[i].is_active /\ sessions[i].revoked_at = now
    /\ \E p, q \in Procs : /\ req[p].pc = "idle" /\ req[p].op = "logout"
                            /\ req[q].pc = "idle" /\ req[q].op = "destroy"
                            /\ req[q].status = 204

\* C27: every change of a password, by change_password and by reset_password,
\* leaves must_change_password false and password_changed_at at now.
C27_ChangeClearsMustChange ==
    [][\A p \in Procs :
          /\ \A u \in Users, npw \in Passwords, c \in ClientCookies :
                ChangePassword(p, u, npw, c)
                   => /\ ~users'[u].must_change_password
                      /\ users'[u].password_changed_at = now
          /\ (req[p].pc = "reset_setpw" /\ req'[p] # req[p])
                => /\ ~users'[req[p].user].must_change_password
                   /\ users'[req[p].user].password_changed_at = now]_vars

\* C32: LoginHistory is append-only: no step of a login, logout, revocation,
\* deactivation or password request changes or removes a row the table
\* already holds, so the table at any later state extends the earlier one.
C32_HistoryAppendOnly ==
    [][/\ Len(history') >= Len(history)
       /\ \A i \in 1..Len(history) : history'[i] = history[i]]_vars
C32_Witness ==
    /\ Len(history) >= 2
    /\ \E p \in Procs : req[p].op = "logout" /\ req[p].status = 200
    /\ \E p \in Procs : req[p].op = "change_password" /\ req[p].status = 200
    /\ \E i \in 1..Len(sessions) : ~sessions[i].is_active

\* C37: when a reset_password request succeeds, every session of the token's
\* user that the table held before is inactive.
C37_ResetRevokesAll ==
    [][\A p \in Procs :
          (req[p].pc \in {"reset_setpw", "reset_mark", "reset_revoke"}
             /\ req'[p].pc = "idle" /\ req'[p].status = 200)
             => \A i \in 1..Len(sessions) :
                   sessions[i].user = req[p].user => ~sessions'[i].is_active]_vars
\* the workers ran logins and one reset only; the reset succeeded and both
\* sessions of u1 are revoked
C37_Witness ==
    /\ \E p \in Procs : req[p].pc = "idle" /\ req[p].op = "reset" /\ req[p].status = 200
    /\ Len(sessions) = 2
    /\ \A i \in 1..2 : /\ sessions[i].user = "u1"
                       /\ ~sessions[i].is_active
                       /\ sessions[i].revoked_at = now
    /\ \A p \in Procs : req[p].op \in {"reset", "login"}

(***************************************************************************)
(* The tenant's user limit (SpecQuota)                                     *)
(***************************************************************************)
\* C24: in every state no tenant has more users than its max_users.
C24_WithinQuota ==
    \A t \in Tenants : Cardinality(TenantUsers(t)) <= tenants[t].max_users

(***************************************************************************)
(* Permission checks and validity windows (SpecPerm)                       *)
(***************************************************************************)
\* C25: a check grants a permission only if, at the time of the check, the
\* user has an assignment with valid_from <= now and valid_until unset or not
\* before now whose role holds the permission, directly or by inheritance.
C25_GrantOnlyThroughValid ==
    [][\A u \in Users, perm \in Perms :
          (CheckPermission(u, perm) /\ call'.result)
             => \E i \in 1..Len(user_roles) :
                   /\ user_roles[i].user = u
                   /\ user_roles[i].valid_from <= now
                   /\ user_roles[i].valid_until = NoTime \/ user_roles[i].valid_until >= now
                   /\ \/ perm \in permissions[user_roles[i].role]
                      \/ /\ parent_role[user_roles[i].role] # NoRole
                         /\ perm \in permissions[parent_role[user_roles[i].role]]]_vars

\* u1's only assignments are one that has expired and one not yet valid, both
\* of roles that hold p1, and the check just made refused p1
C25_Witness ==
    /\ call.pc = "returned" /\ ~call.result
    /\ call.stack = <<"u1", "p1", now>>
    /\ Len(user_roles) = 2
    /\ user_roles[1].valid_until # NoTime /\ user_roles[1].valid_until < now
    /\ user_roles[2].valid_from > now
    /\ \A i \in 1..2 : "p1" \in all_permissions(user_roles[i].role)

(***************************************************************************)
(* Subscription state (SpecTenant)                                         *)
(***************************************************************************)
\* C26: is_subscription_active answers true exactly when the status is
\* 'active' and the expiry is unset or later than now; an expiry equal to now
\* makes it false.
C26_ActiveExactlyWhen ==
    [][\A t \in Tenants :
          IsSubscriptionActive(t)
             => (call'.result <=>
                    /\ tenants[t].subscription_status = "active"
                    /\ \/ tenants[t].subscription_expires_at = NoTime
                       \/ tenants[t].subscription_expires_at > now)]_vars

(***************************************************************************)
(* API keys and the session history of a user (SpecUserRow)                *)
(***************************************************************************)
\* C28: revoke_api_key leaves the key empty and its stamp unset; a
\* generate_api_key leaves a new key stored, stamped with now; and after every
\* call the stored key is empty exactly when the stamp is unset.
C28_KeyAndStampTogether ==
    [][\A u \in Users :
          /\ RevokeApiKey(u)
                => /\ users'[u].api_key = EmptyString
                   /\ users'[u].api_key_created_at = NoTime
          /\ GenerateApiKey(u)
                => /\ users'[u].api_key # EmptyString
                   /\ users'[u].api_key_created_at = now
          /\ (users'[u].api_key = EmptyString) <=> (users'[u].api_key_created_at = NoTime)]_vars

\* C29: an add_session leaves the list with the new entry last, behind the
\* entries it had, in their order, less the oldest one if it had 10; the list
\* never has more than 10 entries.
C29_LastTenFIFO ==
    [][\A u \in Users, ip \in IpAddresses :
          AddSession(u, NextSessionId(u), ip)
             => LET old == users[u].active_sessions
                    new == users'[u].active_sessions
                    entry == [id |-> NextSessionId(u), ip_address |-> ip, created_at |-> now]
                IN  /\ Len(new) <= 10
                    /\ new = IF Len(old) < 10
                             THEN Append(old, entry)
                             ELSE Append(Tail(old), entry)]_vars

\* twelve sessions were added for u1: the list holds the third to the twelfth
C29_Witness ==
    /\ Len(users["u1"].active_sessions) = 10
    /\ \A i \in 1..10 : users["u1"].active_sessions[i].id = i + 2

\* C33: the step that completes a successful login leaves, as the newest entry
\* of the user's active_sessions list, an entry that identifies the session
\* the login created.
C33_LoginRecordsSession ==
    [][\A p \in Procs :
          LoginOkHistory(p)
             => LET list == users'[req[p].user].active_sessions
                IN  /\ list # <<>>
                    /\ list[Len(list)].id = req'[p].session_id]_vars

(***************************************************************************)
(* The answer to a failed authentication (SpecAccess)                      *)
(***************************************************************************)
\* C30: a login that fails authentication is answered in one way, whether the
\* address has a user, whose counter and audit row are written first, or has
\* none: status 401 and nothing else that tells the two apart.
C30_SameRefusal ==
    [][\A p \in Procs :
          (req[p].pc \in {"login_failed", "login_save"} /\ req'[p].pc = "idle")
             => req'[p] = Done("login", 0, 401)]_vars

\* both workers were refused with 401, one for u1 with a wrong password, which
\* left the one audit row, the other for an address no user of the tenant has
C30_Witness ==
    /\ \A p \in Procs : req[p] = Done("login", 0, 401)
    /\ Len(history) = 1
    /\ history[1].failure_reason = "invalid_credentials"
    /\ users["u1"].failed_login_attempts = 1

\* C36: a login for an address that resolves to no user of the tenant is
\* refused with the generic 401; no step of it changes a user's
\* failed_login_attempts or locked_until or creates a session.
C36_UnknownEmailFrame ==
    [][/\ \A p \in Procs, t \in Tenants, e \in AccessEmails, pw \in Passwords :
             (LoginResolve(p, t, e, pw) /\ UserByEmail(t, e) = NoUser)
                => /\ req'[p].pc = "login_failed"
                   /\ users' = users
                   /\ sessions' = sessions
       /\ \A p \in Procs :
             (/\ req[p].pc = "login_failed"
              /\ UserByEmail(req[p].tenant, req[p].email) = NoUser
              /\ req'[p] # req[p])
                => /\ req'[p] = Done("login", 0, 401)
                   /\ users' = users
                   /\ sessions' = sessions]_vars
\* a worker was refused with 401 and nothing was written: no audit row, no
\* counter, no session
C36_Witness ==
    /\ \E p \in Procs : req[p] = Done("login", 0, 401)
    /\ history = <<>>
    /\ sessions = <<>>
    /\ \A u \in Users : users[u].failed_login_attempts = 0 /\ users[u].locked_until = NoTime

C38_InactiveUserNoSession ==
    \A u \in Users :
        (/\ ~users[u].is_active
         /\ \A p \in Procs : ~(req[p].pc = "deactivate_revoke" /\ req[p].user = u))
        => \A i \in 1..Len(sessions) : sessions[i].user = u => ~sessions[i].is_active

(***************************************************************************)
(* Whose session a logout revokes (SpecOwner)                              *)
(***************************************************************************)
\* C39: a logout by user u that names the key of a session of another user
\* leaves that session's is_active and revoked_at as they were, and is
\* answered with success all the same.
C39_LogoutOwnSessionsOnly ==
    [][\A p \in Procs, u \in Users, c \in ClientCookies :
          \A i \in 1..Len(sessions) :
             (sessions[i].user # u /\ Logout(p, u, sessions[i].session_key, c))
                => /\ sessions'[i].is_active = sessions[i].is_active
                   /\ sessions'[i].revoked_at = sessions[i].revoked_at
                   /\ req'[p].op = "logout"
                   /\ req'[p].status = 200]_vars
\* u1 and u2 each hold a session; a logout by u2 was answered 200 and u1's
\* session, the only one left active, is untouched
C39_Witness ==
    /\ Len(sessions) = 2
    /\ \E i, j \in 1..2 : /\ sessions[i].user = "u1" /\ sessions[i].is_active
                          /\ sessions[i].revoked_at = NoTime
                          /\ sessions[j].user = "u2"
    /\ \E p \in Procs : /\ req[p].pc = "idle" /\ req[p].op = "logout"
                        /\ req[p].user = "u2" /\ req[p].status = 200

====
